---- MODULE Spec2Model ----
(***************************************************************************)
(* The network dispatcher of kompact (core/src/dispatch/mod.rs) as a state *)
(* machine: the connection table, the per-peer frame queues, the control   *)
(* port and the actor registry with its reaper.  The dispatcher is a       *)
(* component: it handles one envelope at a time, so every handler is one   *)
(* action.  Reader threads that lease the registry and the transport that  *)
(* drops the receiving end of a frame channel are actions of their own.    *)
(***************************************************************************)
EXTENDS Integers, Sequences, FiniteSets, TLC

(***************************************************************************)
(* Bounds of the model.                                                    *)
(***************************************************************************)
\* Msg envelopes with a TCP destination handled in one behaviour.
MaxMsgs == 2
\* The same where a single peer is followed through several connections.
MaxPeerMsgs == 3
\* Connection(addr, Connected(sender)) events in one behaviour.
MaxSenders == 2
\* Snapshots of the registry published in one behaviour (registrations that
\* succeed and reaper runs).
MaxSnapshots == 4

\* Peer socket addresses.
Peers == {"a1", "a2"}
\* Actor paths and actor references known to the registry.
Paths == {"p1", "p2"}
Actors == {"r1", "r2"}
\* Threads other than the dispatcher that lease the registry.
Readers == {"t1"}
\* The four variants of PathResolvable.
SrcKinds == {"Path", "Alias", "ActorId", "System"}
\* What a message is to the router: one with a typed local form ("local"),
\* or one without that serialises ("bytes") or fails to ("unserialisable").
MsgForms == {"local", "bytes", "unserialisable"}

VARIABLES
    net_bridge,     \* "None" or "Some": NetworkDispatcher.net_bridge
    queue_manager,  \* [some, inner]: NetworkDispatcher.queue_manager
    connections,    \* peer -> ConnectionState ("Absent": no entry)
    notify_ready,   \* "Some" or "None": NetworkDispatcher.notify_ready
    ready,          \* how often the readiness promise was fulfilled
    senders,        \* peer -> its senders so far: receiving end still held
    produced,       \* peer -> frames route_remote built for it, in order
    enqueued,       \* peer -> frames that entered its queue
    accepted,       \* peer -> <<frame, sender>> accepted by a sender, in order
    panic,          \* "none", or why the dispatcher panicked
    last,           \* the envelope handled last and what its sends did
    store,          \* snapshot id -> ActorStore contents (set of <<path, ref>>),
                    \* for the snapshots that are referenced
    cell,           \* the snapshot id the ArcSwap holds
    lease,          \* reader -> snapshot id it holds (0: none)
    leaseSeen,      \* reader -> contents of its snapshot when it leased
    alive,          \* actor reference -> the actor has not terminated
    reaper,         \* [scheduled, pending, interval]: the reaper's flag, its
                    \* armed timers and its strategy's current interval (ms)
    registered,     \* path -> [ref, at]: its registration still in the registry
    t1,             \* the Test1 value being serialised: its field i
    mbuf,           \* the bytes T1Ser has written so far
    t1_res,         \* what T1Ser::deserialise returned, once it was called
    t1b,            \* the Box holding a clone of the value, once it is built
    t2,             \* what get_deserialised returned for the value
    t2b             \* what get_deserialised returned for the Box

netVars == <<net_bridge, queue_manager, connections, notify_ready, ready,
             senders, produced, enqueued, accepted>>
regVars == <<store, cell, lease, leaseSeen, alive, reaper, registered>>
serVars == <<t1, mbuf, t1_res, t1b, t2, t2b>>
vars == <<netVars, regVars, serVars, panic, last>>

(***************************************************************************)
(* ConnectionState                                                         *)
(***************************************************************************)
Absent == [tag |-> "Absent", tx |-> 0]
New == [tag |-> "New", tx |-> 0]
Initializing == [tag |-> "Initializing", tx |-> 0]
Closed == [tag |-> "Closed", tx |-> 0]
Error == [tag |-> "Error", tx |-> 0]
Connected(tx) == [tag |-> "Connected", tx |-> tx]

NoQueues == [a \in Peers |-> <<>>]

(***************************************************************************)
(* QueueManager (dispatch/queue_manager.rs): a FIFO of frames per peer.    *)
(***************************************************************************)
enqueue_frame(inner, frame, addr) ==
    [inner EXCEPT ![addr] = Append(@, frame)]

has_frame(inner, addr) == Len(inner[addr]) > 0

\* The frames of q a sender with this budget accepts, and what try_drain
\* leaves: the failed frame goes back to the head and the state is Closed.
RECURSIVE try_drain(_, _, _)
try_drain(q, budget, sent) ==
    IF q = <<>>
    THEN [q |-> q, sent |-> sent, failed |-> FALSE]
    ELSE IF budget = 0
         THEN [q |-> <<Head(q)>> \o Tail(q), sent |-> sent, failed |-> TRUE]
         ELSE try_drain(Tail(q), budget - 1, Append(sent, Head(q)))

(***************************************************************************)
(* on_conn_state's drain loop: pop while the sender accepts; a frame whose *)
(* send fails is handed to enqueue_frame, and the loop breaks.             *)
(***************************************************************************)
RECURSIVE conn_drain_tail(_, _, _)
conn_drain_tail(q, budget, sent) ==
    IF q = <<>>
    THEN [q |-> q, sent |-> sent, failed |-> FALSE]
    ELSE IF budget = 0
         THEN [q |-> Append(Tail(q), Head(q)), sent |-> sent, failed |-> TRUE]
         ELSE conn_drain_tail(Tail(q), budget - 1, Append(sent, Head(q)))

conn_drain(q, budget) == conn_drain_tail(q, budget, <<>>)

(***************************************************************************)
(* Helpers of the model.                                                   *)
(***************************************************************************)
RECURSIVE SumLen(_, _)
SumLen(f, S) ==
    IF S = {} THEN 0
    ELSE LET x == CHOOSE y \in S : TRUE IN Len(f[x]) + SumLen(f, S \ {x})

\* The Msg envelopes with a TCP destination and the Connected events so far.
NumMsgs == SumLen(produced, Peers)
NumSenders == SumLen(senders, Peers)

\* The frames of a peer are numbered in the order route_remote builds them,
\* its senders in the order the Connected events bring them.
NextFrame(a) == Len(produced[a]) + 1
NextSender(a) == Len(senders[a]) + 1

\* What a drain that sent `sent` of the frames of q has not sent, in order.
Unsent(q, sent) == SubSeq(q, Len(sent) + 1, Len(q))

\* The sends of one handler as entries of the accepted log.
Stamp(sent, tx) == [i \in 1..Len(sent) |-> <<sent[i], tx>>]

\* A sender whose table entry is replaced is dropped: its channel closes.
DropEntry(sv, state) ==
    IF state.tag = "Connected" THEN [sv EXCEPT ![state.tx] = FALSE] ELSE sv

\* Whether the receiving end of the sender a Connected state holds is held.
Open(a) == senders[a][connections[a].tx]

\* How many sends the sender of a peer may accept in one handler before the
\* transport drops the receiving end: none when it is already dropped.
Budgets(open, n) == IF open THEN 0..n ELSE {0}

QueueOf(a) == queue_manager.inner[a]

NotRegistered == [ref |-> "", at |-> 0]

\* What is kept of the envelope handled last: its kind, its peer address or
\* path, whether a send failed and which frames were then unsent (in order),
\* the actor and the result of a registration, its promise and the values
\* the promise was fulfilled with, the local deliveries made, whether a
\* connection was requested from the bridge, and the state a Connection
\* event reported.
Envelope(kind, a) ==
    [kind |-> kind, addr |-> a, failed |-> FALSE, rest |-> <<>>,
     actor |-> "", res |-> "", promise |-> "none", fulfils |-> <<>>,
     told |-> <<>>, connect |-> FALSE, reported |-> Absent]

Panics(why, kind, a) ==
    /\ panic' = why
    /\ last' = Envelope(kind, a)

NotDeserialised == [tag |-> "None", i |-> 0]

\* Box<T>: no Box yet, a Box that owns a value, a Box that was moved out of.
NotBoxed == [tag |-> "None", boxed |-> 0]
Box(v) == [tag |-> "Box", boxed |-> v]
Moved == [tag |-> "Moved", boxed |-> 0]

(***************************************************************************)
(* The reaper's backoff strategy (dispatch/lookup.rs): the interval is     *)
(* lengthened by a factor up to a ceiling and shortened by it down to a    *)
(* floor.                                                                  *)
(***************************************************************************)
Floor == 100
Ceiling == 10000
Factor == 2

incr(interval) ==
    IF interval * Factor > Ceiling THEN Ceiling ELSE interval * Factor

decr(interval) ==
    IF interval \div Factor < Floor THEN Floor ELSE interval \div Factor

\* The intervals a configured strategy may start from.
StartIntervals == {Floor, 150, 200, 2500, 5000, 6400, Ceiling}

(***************************************************************************)
(* Init: NetworkDispatcher::with_config                                    *)
(***************************************************************************)
InitAt(interval, i) ==
    /\ t1 = i
    /\ mbuf = <<>>
    /\ t1_res = NotDeserialised
    /\ t1b = NotBoxed
    /\ t2 = NotDeserialised
    /\ t2b = NotDeserialised
    /\ net_bridge = "None"
    /\ queue_manager = [some |-> FALSE, inner |-> NoQueues]
    /\ connections = [a \in Peers |-> Absent]
    /\ notify_ready = "Some"
    /\ ready = 0
    /\ senders = [a \in Peers |-> <<>>]
    /\ produced = [a \in Peers |-> <<>>]
    /\ enqueued = [a \in Peers |-> {}]
    /\ accepted = [a \in Peers |-> <<>>]
    /\ panic = "none"
    /\ last = Envelope("Init", "")
    /\ store = <<{}>>
    /\ cell = 1
    /\ lease = [t \in Readers |-> 0]
    /\ leaseSeen = [t \in Readers |-> {}]
    /\ alive = [r \in Actors |-> TRUE]
    /\ reaper = [scheduled |-> FALSE, pending |-> 0, interval |-> interval]
    /\ registered = [p \in Paths |-> NotRegistered]

\* The value of the repository's own round-trip test.
TestValue == 42

Init == InitAt(Floor, TestValue)

(***************************************************************************)
(* Provide<ControlPort>::handle and NetworkDispatcher::start               *)
(***************************************************************************)
\* start(): a fresh bridge and a fresh, empty QueueManager are installed.
start_installs(qm) == [some |-> TRUE, inner |-> NoQueues]

\* A Start that fulfils a promise whether or not one is left to take.
start_fulfils_always(nr, r) == r + 1

\* notify_ready.take(): the promise is fulfilled when it is still there.
start_fulfils(nr, r) == IF nr = "Some" THEN r + 1 ELSE r

Start(ok) ==
    /\ panic = "none"
    /\ IF ok
       THEN /\ net_bridge' = "Some"
            /\ queue_manager' = start_installs(queue_manager)
            /\ notify_ready' = "None"
            /\ ready' = start_fulfils(notify_ready, ready)
            /\ panic' = panic
       ELSE /\ panic' = "start"
            /\ UNCHANGED <<net_bridge, queue_manager, notify_ready, ready>>
    /\ last' = Envelope("Start", "")
    /\ UNCHANGED <<connections, senders, produced, enqueued, accepted, regVars, serVars>>

Stop ==
    /\ panic = "none"
    /\ last' = Envelope("Stop", "")
    /\ UNCHANGED <<serVars, netVars, regVars, panic>>

Kill ==
    /\ panic = "none"
    /\ last' = Envelope("Kill", "")
    /\ UNCHANGED <<serVars, netVars, regVars, panic>>

(***************************************************************************)
(* Dispatcher::system_path and the source resolution of route              *)
(***************************************************************************)
\* A system_path that is never ready.
system_path_never_ready(src) == src # "Path"

\* system_path() panics while no bridge is installed; every source but an
\* explicit Path is resolved through it.
system_path_panics(src) == src # "Path" /\ net_bridge = "None"

(***************************************************************************)
(* NetworkDispatcher::route_remote                                         *)
(***************************************************************************)
\* A Connected branch that always takes the direct send.
route_connected_direct(q, frame, budget) ==
    IF budget = 0
    THEN [q |-> Append(q, frame), sent |-> <<>>, failed |-> TRUE]
    ELSE [q |-> q, sent |-> <<frame>>, failed |-> FALSE]

\* The Connected branch: the queue after the handler, the frames sent and
\* whether a send failed.
route_connected(q, frame, budget) ==
    IF q # <<>>
    THEN try_drain(Append(q, frame), budget, <<>>)
    ELSE IF budget = 0
         THEN [q |-> Append(q, frame), sent |-> <<>>, failed |-> TRUE]
         ELSE [q |-> q, sent |-> <<frame>>, failed |-> FALSE]

\* A route_remote that asks the bridge to connect in every arm.
route_requests_always(tag, bridge) == bridge = "Some"

\* Whether route_remote calls bridge.connect: in the New | Closed arm, when
\* a bridge is installed.
route_requests(tag, bridge) == tag \in {"New", "Closed"} /\ bridge = "Some"

\* An arm for the remaining states that queues the frame.
route_ignored_queues(inner, frame, a) == enqueue_frame(inner, frame, a)

\* The arm for the remaining states (`_ => None`): the queues stay as they
\* are, the frame is dropped with the handler's scope.
route_ignored(inner, frame, a) == inner

route_remote(a, serOk, connOk, budget) ==
    LET frame == NextFrame(a)
        state == IF connections[a] = Absent THEN New ELSE connections[a]
        qm == queue_manager
        queued == [qm EXCEPT !.inner = enqueue_frame(@, frame, a)]
    IN
    IF ~serOk
    THEN /\ Panics("s11n", "Msg", a)
         /\ UNCHANGED <<serVars, netVars, regVars>>
    ELSE
    /\ produced' = [produced EXCEPT ![a] = Append(@, frame)]
    /\ CASE state.tag \in {"New", "Closed"} ->
              /\ queue_manager' = IF qm.some THEN queued ELSE qm
              /\ enqueued' = IF qm.some
                             THEN [enqueued EXCEPT ![a] = @ \cup {frame}]
                             ELSE enqueued
              /\ IF net_bridge = "Some"
                 THEN IF connOk
                      THEN /\ connections' =
                                [connections EXCEPT ![a] = Initializing]
                           /\ panic' = panic
                      ELSE /\ connections' = [connections EXCEPT ![a] = state]
                           /\ panic' = "connect"
                 ELSE /\ connections' = [connections EXCEPT ![a] = Closed]
                      /\ panic' = panic
              /\ last' = [Envelope("Msg", a) EXCEPT
                            !.connect = route_requests(state.tag, net_bridge)]
              /\ UNCHANGED <<senders, accepted>>
         [] state.tag = "Connected" ->
              IF qm.some
              THEN LET r == route_connected(qm.inner[a], frame, budget) IN
                   /\ queue_manager' = [qm EXCEPT !.inner[a] = r.q]
                   /\ enqueued' =
                        IF has_frame(qm.inner, a) \/ r.failed
                        THEN [enqueued EXCEPT ![a] = @ \cup {frame}]
                        ELSE enqueued
                   /\ accepted' = [accepted EXCEPT
                                     ![a] = @ \o Stamp(r.sent, state.tx)]
                   /\ connections' =
                        IF r.failed
                        THEN [connections EXCEPT ![a] = Closed]
                        ELSE connections
                   /\ senders' = IF r.failed
                                 THEN [senders EXCEPT ![a][state.tx] = FALSE]
                                 ELSE senders
                   /\ last' = [Envelope("Msg", a) EXCEPT
                               !.failed = r.failed,
                               !.rest = IF r.failed
                                        THEN Unsent(Append(qm.inner[a], frame),
                                                    r.sent)
                                        ELSE <<>>]
                   /\ panic' = panic
              ELSE /\ last' = Envelope("Msg", a)
                   /\ UNCHANGED <<queue_manager, enqueued, accepted,
                                  connections, senders, panic>>
         [] state.tag = "Initializing" ->
              /\ queue_manager' = IF qm.some THEN queued ELSE qm
              /\ enqueued' = IF qm.some
                             THEN [enqueued EXCEPT ![a] = @ \cup {frame}]
                             ELSE enqueued
              /\ last' = [Envelope("Msg", a) EXCEPT
                            !.connect = route_requests(state.tag, net_bridge)]
              /\ UNCHANGED <<connections, senders, accepted, panic>>
         [] OTHER ->
              /\ queue_manager' = [qm EXCEPT
                                     !.inner = route_ignored(@, frame, a)]
              /\ last' = Envelope("Msg", a)
              /\ UNCHANGED <<enqueued, connections, senders, accepted, panic>>
    /\ UNCHANGED <<net_bridge, notify_ready, ready, regVars, serVars>>

\* Dispatcher::receive of Msg { src, dst, msg } with a TCP destination.
MsgTcp(a, src, serOk, connOk, budget) ==
    /\ panic = "none"
    /\ IF system_path_panics(src)
       THEN /\ Panics("system_path", "Msg", a)
            /\ UNCHANGED <<serVars, netVars, regVars>>
       ELSE route_remote(a, serOk, connOk, budget)

\* A UDP route that marks the peers Closed.
MsgUdp_closes(src) ==
    /\ panic = "none"
    /\ last' = Envelope("Udp", "")
    /\ connections' = [a \in Peers |-> Closed]
    /\ UNCHANGED <<net_bridge, queue_manager, notify_ready, ready, senders,
                   produced, enqueued, accepted, panic, regVars, serVars>>

\* Dispatcher::receive of Msg { src, dst, msg } with a UDP destination.
MsgUdp(src) ==
    /\ panic = "none"
    /\ IF system_path_panics(src)
       THEN Panics("system_path", "Udp", "")
       ELSE /\ last' = Envelope("Udp", "")
            /\ panic' = panic
    /\ UNCHANGED <<serVars, netVars, regVars>>

(***************************************************************************)
(* NetworkDispatcher::on_event and on_conn_state                           *)
(***************************************************************************)
\* A handler that records Closed when its drain failed.
conn_recorded_closed(state, failed) == IF failed THEN Closed ELSE state

\* The state on_conn_state records for the peer: the reported one.
conn_recorded(state, failed) == state

\* An insert that writes the state into every entry of the table.
conn_insert_all(table, a, state) == [b \in Peers |-> state]

\* self.connections.insert(addr, state): the entry of this address.
conn_insert(table, a, state) == [table EXCEPT ![a] = state]

\* A drain into the sender the table holds, when it holds one.
drain_sender_recorded(state, recorded) ==
    IF recorded.tag = "Connected" THEN recorded.tx ELSE state.tx

\* The sender the drain loop sends on: frame_sender, the one the reported
\* Connected state carries.
drain_sender(state, recorded) == state.tx

\* Event(Network(Connection(addr, state))): the bridge reports a state; a
\* Connected state carries a fresh frame sender.
on_conn_state(a, state, budget) ==
    LET qm == queue_manager
        drains == state.tag = "Connected" /\ qm.some /\ has_frame(qm.inner, a)
        r == IF drains
             THEN conn_drain(qm.inner[a], budget)
             ELSE [q |-> qm.inner[a], sent |-> <<>>, failed |-> FALSE]
        dropped == DropEntry(senders[a], connections[a])
    IN
    /\ queue_manager' = [qm EXCEPT !.inner[a] = r.q]
    /\ accepted' = [accepted EXCEPT
                      ![a] = @ \o Stamp(r.sent,
                                        drain_sender(state, connections[a]))]
    /\ senders' = [senders EXCEPT ![a] = IF state.tag = "Connected"
                                          THEN Append(dropped, ~r.failed)
                                          ELSE dropped]
    /\ connections' = conn_insert(connections, a,
                                  conn_recorded(state, r.failed))
    /\ last' = [Envelope("Conn", a) EXCEPT
                !.reported = state,
                !.failed = r.failed,
                !.rest = IF r.failed THEN Unsent(qm.inner[a], r.sent)
                         ELSE <<>>]
    /\ UNCHANGED <<net_bridge, notify_ready, ready, produced, enqueued,
                   panic, regVars, serVars>>

ConnEvent(a, state) ==
    /\ panic = "none"
    /\ net_bridge = "Some"
    /\ state.tag = "Connected" => NumSenders < MaxSenders
    /\ \E budget \in 0..Len(QueueOf(a)) : on_conn_state(a, state, budget)

\* Event(Network(Data(_))): logged.
DataEvent ==
    /\ panic = "none"
    /\ net_bridge = "Some"
    /\ last' = Envelope("Data", "")
    /\ UNCHANGED <<serVars, netVars, regVars, panic>>

\* DispatchEnvelope::Cast(_): logged.
Cast ==
    /\ panic = "none"
    /\ last' = Envelope("Cast", "")
    /\ UNCHANGED <<serVars, netVars, regVars, panic>>

\* The transport drops the receiving end of a channel whose sender the
\* connection table holds: every later send on that sender fails.
DropReceiver(a) ==
    /\ panic = "none"
    /\ connections[a].tag = "Connected"
    /\ Open(a)
    /\ senders' = [senders EXCEPT ![a][connections[a].tx] = FALSE]
    /\ UNCHANGED <<net_bridge, queue_manager, connections, notify_ready,
                   ready, produced, enqueued, accepted, panic, last, regVars, serVars>>

\* The sends a Msg envelope for peer a may see accepted.
MsgBudgets(a) ==
    IF connections[a].tag = "Connected"
    THEN Budgets(Open(a), Len(QueueOf(a)) + 1)
    ELSE {0}

NextNet ==
    \/ \E ok \in BOOLEAN : Start(ok)
    \/ \E a \in Peers, src \in SrcKinds, serOk \in BOOLEAN, connOk \in BOOLEAN :
         \E budget \in MsgBudgets(a) :
            NumMsgs < MaxMsgs /\ MsgTcp(a, src, serOk, connOk, budget)
    \/ \E a \in Peers :
         \E state \in {Closed, Error, Connected(NextSender(a))} :
            ConnEvent(a, state)
    \/ \E a \in Peers : DropReceiver(a)

SpecNet == Init /\ [][NextNet]_vars

(***************************************************************************)
(* ActorStore (dispatch/lookup.rs): a snapshot of the registry, the set of *)
(* its <<path, reference>> entries.                                        *)
(***************************************************************************)
\* A lookup that does not see the entries of terminated actors.
contains_live(snapshot, path) ==
    \E e \in snapshot : e[1] = path /\ alive[e[2]]

contains(snapshot, path) == \E e \in snapshot : e[1] = path

\* None is "".
get_by_actor_path(snapshot, path) ==
    IF contains(snapshot, path)
    THEN (CHOOSE e \in snapshot : e[1] = path)[2]
    ELSE ""

insert(snapshot, actor, path) ==
    {e \in snapshot : e[1] # path} \cup {<<path, actor>>}

\* ActorRefReaper::run removes the entries whose reference reports dead.
reaped(snapshot) == {e \in snapshot : ~alive[e[2]]}

(***************************************************************************)
(* Arc<ArcSwap<ActorStore>>: snapshots live in Arcs; the cell holds one,   *)
(* every lease another reference.  An Arc nothing refers to is freed.      *)
(***************************************************************************)
\* The snapshot the ArcSwap holds, as a lease taken now sees it.
Current == store[cell]

\* The store with a new Arc, number id, holding the snapshot next.
Alloc(st, id, next) ==
    [i \in DOMAIN st \cup {id} |-> IF i = id THEN next ELSE st[i]]

\* The store without the Arcs nothing in keep refers to.
Free(st, keep) == [i \in DOMAIN st \cap keep |-> st[i]]

Leased(ls) == {ls[t] : t \in Readers} \ {0}

\* A publication that writes into the Arc the cell holds.
rcu_in_place(st, c, next) ==
    [store |-> [st EXCEPT ![c] = next], cell |-> c]

\* rcu: the closure's Arc is swapped into the cell; the Arc the cell held
\* lives on while a lease refers to it.
rcu(st, c, next) ==
    [store |-> Free(Alloc(st, c + 1, next), Leased(lease) \cup {c + 1}),
     cell |-> c + 1]

(***************************************************************************)
(* Dispatcher::receive of Registration(Register(actor, path, promise))     *)
(***************************************************************************)
\* A check that does not see the entries of terminated actors.
register_result_live(snapshot, path) ==
    IF contains_live(snapshot, path) THEN "DuplicateEntry" ELSE "Ok"

\* A registration that skips the check.
register_result_unchecked(snapshot, path) == "Ok"

\* The check against the lease.
register_result(snapshot, path) ==
    IF contains(snapshot, path) THEN "DuplicateEntry" ELSE "Ok"

\* A closure that returns the clone as it is.
register_next_no_insert(current, actor, path) == current

\* The rcu closure: a clone of the current snapshot with the entry inserted.
register_next(current, actor, path) == insert(current, actor, path)

\* A registration that publishes whatever the check said.
register_publish_always(st, c, res, actor, path) ==
    rcu(st, c, register_next(st[c], actor, path))

\* What the registration does to the registry: nothing when the path is a
\* duplicate, else the closure's snapshot is published.
register_publish(st, c, res, actor, path) ==
    IF res = "Ok"
    THEN rcu(st, c, register_next(st[c], actor, path))
    ELSE [store |-> st, cell |-> c]

\* A promise fulfilled only when the registration succeeded.
register_fulfils_on_success(promise, res) ==
    IF promise = "none" \/ res # "Ok" THEN <<>> ELSE <<res>>

\* What promise.fulfill is called with: once with the result, when the
\* envelope carries a promise.
register_fulfils(promise, res) ==
    IF promise = "none" THEN <<>> ELSE <<res>>

\* schedule_reaper when the reaper is not scheduled: mark it scheduled and
\* arm one timer.
first_schedule(rp) ==
    [rp EXCEPT !.scheduled = TRUE, !.pending = @ + 1]

Register(actor, path, promise) ==
    LET res == register_result(Current, path)
        next == register_publish(store, cell, res, actor, path)
    IN
    /\ panic = "none"
    /\ res = "Ok" => cell < MaxSnapshots
    /\ store' = next.store
    /\ cell' = next.cell
    /\ registered' = IF res = "Ok"
                     THEN [registered EXCEPT
                             ![path] = [ref |-> actor, at |-> next.cell]]
                     ELSE registered
    /\ reaper' = IF res = "Ok" /\ ~reaper.scheduled
                 THEN first_schedule(reaper)
                 ELSE reaper
    /\ last' = [Envelope("Register", path) EXCEPT
                  !.actor = actor, !.res = res, !.promise = promise,
                  !.fulfils = register_fulfils(promise, res)]
    /\ UNCHANGED <<serVars, netVars, panic, lease, leaseSeen, alive>>

(***************************************************************************)
(* NetworkDispatcher::schedule_reaper, woken by its timer                  *)
(***************************************************************************)
\* A run that publishes an empty snapshot.
reaper_run_clear(st, c) == rcu(st, c, {})

\* ActorRefReaper::run: publish the snapshot without its dead entries.
reaper_run(st, c) == rcu(st, c, st[c] \ reaped(st[c]))

\* A wake-up that tunes the interval the other way round.
tune_swapped(interval, num_reaped) ==
    IF num_reaped = 0 THEN decr(interval) ELSE incr(interval)

\* The repeated schedule: no work done slows the interval down, work done
\* speeds it up.
tune(interval, num_reaped) ==
    IF num_reaped = 0 THEN incr(interval) ELSE decr(interval)

\* A wake-up that arms no next timer.
rearm_none(rp) == [rp EXCEPT !.pending = @ - 1]

\* The timer that woke the reaper is spent, and schedule_once arms the next
\* one.
rearm(rp) == [rp EXCEPT !.pending = (@ - 1) + 1]

ReaperWake ==
    LET run == reaper_run(store, cell)
        num_reaped == Cardinality(reaped(Current))
    IN
    /\ panic = "none"
    /\ reaper.pending > 0
    /\ cell < MaxSnapshots
    /\ store' = run.store
    /\ cell' = run.cell
    /\ registered' = [p \in Paths |->
                        IF contains(run.store[run.cell], p)
                        THEN registered[p] ELSE NotRegistered]
    /\ reaper' = [rearm(reaper) EXCEPT
                    !.interval = tune(@, num_reaped)]
    /\ last' = Envelope("Reap", "")
    /\ UNCHANGED <<serVars, netVars, panic, lease, leaseSeen, alive>>

\* An actor terminates: its reference reports dead from now on.
ActorDies(r) ==
    /\ alive[r]
    /\ alive' = [alive EXCEPT ![r] = FALSE]
    /\ UNCHANGED <<serVars, netVars, panic, last, store, cell, lease, leaseSeen,
                   reaper, registered>>

(***************************************************************************)
(* Readers on other threads: lookup.lease()                                *)
(***************************************************************************)
TakeLease(t) ==
    /\ lease[t] = 0
    /\ lease' = [lease EXCEPT ![t] = cell]
    /\ leaseSeen' = [leaseSeen EXCEPT ![t] = Current]
    /\ UNCHANGED <<serVars, netVars, panic, last, store, cell, alive, reaper,
                   registered>>

DropLease(t) ==
    /\ lease[t] # 0
    /\ lease' = [lease EXCEPT ![t] = 0]
    /\ leaseSeen' = [leaseSeen EXCEPT ![t] = {}]
    /\ store' = Free(store, Leased(lease') \cup {cell})
    /\ UNCHANGED <<serVars, netVars, panic, last, cell, alive, reaper, registered>>

(***************************************************************************)
(* NetworkDispatcher::route_local                                          *)
(***************************************************************************)
\* A route_local that tells without looking at what the source lookup found.
route_local_unchecked(snapshot, srcPath, dst, msg) ==
    LET actor == get_by_actor_path(snapshot, dst)
        src_actor == get_by_actor_path(snapshot, srcPath)
    IN
    IF actor # ""
    THEN IF msg = "local"
         THEN [how |-> "tell", to |-> actor, from |-> src_actor]
         ELSE [how |-> "enqueue", to |-> actor, from |-> ""]
    ELSE [how |-> "drop", to |-> "", from |-> ""]

\* What route_local does with the message: "tell", "enqueue", "drop", or
\* the panic it ends in.
route_local(snapshot, srcPath, dst, msg) ==
    LET actor == get_by_actor_path(snapshot, dst)
        src_actor == get_by_actor_path(snapshot, srcPath)
    IN
    IF actor # ""
    THEN IF msg = "local"
         THEN IF src_actor # ""
              THEN [how |-> "tell", to |-> actor, from |-> src_actor]
              ELSE [how |-> "nonlocal_src", to |-> actor, from |-> ""]
         ELSE IF msg = "bytes"
              THEN [how |-> "enqueue", to |-> actor, from |-> ""]
              ELSE [how |-> "recv_envelope", to |-> actor, from |-> ""]
    ELSE [how |-> "drop", to |-> "", from |-> ""]

\* Dispatcher::receive of Msg { src, dst, msg } with a LOCAL destination.
\* A source that is not an explicit Path resolves to srcPath under this
\* system's path.
\* What handling the envelope does: the deliveries it makes and whether it
\* panics (resolving the source comes first, then route, then route_local).
receive_local(src, srcPath, dst, msg) ==
    LET r == route_local(Current, srcPath, dst, msg) IN
    IF system_path_panics(src)
    THEN [panic |-> "system_path", told |-> <<>>]
    ELSE [panic |-> IF r.how \in {"tell", "enqueue", "drop"}
                    THEN "none" ELSE r.how,
          told |-> IF r.how \in {"tell", "enqueue"} THEN <<r>> ELSE <<>>]

MsgLocal(src, srcPath, dst, msg) ==
    LET o == receive_local(src, srcPath, dst, msg) IN
    /\ panic = "none"
    /\ panic' = o.panic
    /\ last' = [Envelope("Local", dst) EXCEPT !.told = o.told]
    /\ UNCHANGED <<serVars, netVars, regVars>>

\* The source paths a message is tried with: route_local looks the source
\* up only for a message with a typed local form; for any other message the
\* source is just part of the serialised envelope.
LocalSources(dst, msg) == IF msg = "local" THEN Paths ELSE {dst}

NextReg ==
    \/ \E ok \in BOOLEAN : Start(ok)
    \/ \E actor \in Actors, path \in Paths,
          promise \in {"none", "live", "dropped"} :
         Register(actor, path, promise)
    \/ ReaperWake
    \/ \E r \in Actors : ActorDies(r)
    \/ \E t \in Readers : TakeLease(t)
    \/ \E t \in Readers : DropLease(t)
    \/ \E src \in SrcKinds, dst \in Paths, msg \in MsgForms :
         \E srcPath \in LocalSources(dst, msg) :
            MsgLocal(src, srcPath, dst, msg)

SpecReg == Init /\ [][NextReg]_vars

(***************************************************************************)
(* The registry and its reaper alone, for every interval the strategy may  *)
(* start from.                                                             *)
(***************************************************************************)
InitReap == \E interval \in StartIntervals : InitAt(interval, TestValue)

NextReap ==
    \/ \E actor \in Actors, path \in Paths : Register(actor, path, "none")
    \/ ReaperWake
    \/ \E r \in Actors : ActorDies(r)

SpecReap == InitReap /\ [][NextReap]_vars

(***************************************************************************)
(* serialisation.rs: T1Ser, the Serialiser and Deserialiser of Test1, and  *)
(* the round trip of ser_deser_equivalence.                                *)
(***************************************************************************)
\* Bytes of a u64, the extra u64s T1Ser writes, and its size_hint.
U64Bytes == 8
Extras == 10
SizeHint == 88

\* The values of Test1.i the round trip is tried with.
SerValues == {0, 1, TestValue, 255, 256, 258, 65535, 65536, 16909060,
              2147483647}

\* BufMut::put_u64: the bytes of n, most significant first.
RECURSIVE be_bytes(_, _)
be_bytes(n, k) ==
    IF k = 0 THEN <<>> ELSE Append(be_bytes(n \div 256, k - 1), n % 256)

put_u64(n) == be_bytes(n, U64Bytes)

\* Buf::get_u64: the number whose bytes, most significant first, are the
\* first eight of the buffer.
RECURSIVE be_value(_)
be_value(b) ==
    IF b = <<>> THEN 0
    ELSE be_value(SubSeq(b, 1, Len(b) - 1)) * 256 + b[Len(b)]

get_u64(buf) == be_value(SubSeq(buf, 1, U64Bytes))

\* A serialiser that writes the extra numbers first.
serialise_put_extras_first(k, i) == IF k = Extras THEN i ELSE k

\* T1Ser::serialise: what its k-th put_u64 writes (k from 0): v.i, then the
\* numbers 0..9.
serialise_put(k, i) == IF k = 0 THEN i ELSE k - 1

\* One put_u64 of T1Ser::serialise into the buffer the test reserved
\* size_hint bytes for; a put beyond the capacity panics.
SerPut ==
    LET k == Len(mbuf) \div U64Bytes IN
    /\ panic = "none"
    /\ t1_res = NotDeserialised
    /\ k < Extras + 1
    /\ IF Len(mbuf) + U64Bytes > SizeHint
       THEN panic' = "put_u64" /\ mbuf' = mbuf
       ELSE panic' = panic /\ mbuf' = mbuf \o put_u64(serialise_put(k, t1))
    /\ UNCHANGED <<t1, t1_res, t1b, t2, t2b, netVars, regVars, last>>

\* T1Ser::deserialise on the buffer serialise returned Ok for.
Deser ==
    /\ panic = "none"
    /\ t1_res = NotDeserialised
    /\ Len(mbuf) = (Extras + 1) * U64Bytes
    /\ t1_res' = [tag |-> "Ok", i |-> get_u64(mbuf)]
    /\ UNCHANGED <<t1, mbuf, t1b, t2, t2b, netVars, regVars, last, panic>>

InitSer == \E i \in SerValues : InitAt(Floor, i)

NextSer == SerPut \/ Deser

SpecSer == InitSer /\ [][NextSer]_vars

(***************************************************************************)
(* serialisation.rs: the trivial Deserialisable implementations, for T and *)
(* for Box<T>, called as trivial_deser_equivalence calls them: once on the *)
(* value and once on a Box that holds a clone of it.                       *)
(***************************************************************************)
\* The values of Test1.i the trivial implementations are tried with: every
\* small one and the ones of the round trip.
MaxValue == 50
TrivValues == (0..MaxValue) \cup SerValues

\* An implementation that answers with a value of its own.
get_deserialised_default(v) == [tag |-> "Ok", i |-> 0]

\* impl<T> Deserialisable<T> for T: Ok(self).
get_deserialised(v) == [tag |-> "Ok", i |-> v]

\* impl<T> Deserialisable<T> for Box<T>: Ok(*self), the value the Box owns.
get_deserialised_box(b) == [tag |-> "Ok", i |-> b.boxed]

\* Deserialisable::<Test1>::get_deserialised(t1); the clone t1c stays.
GetDeserialised ==
    /\ panic = "none"
    /\ t2 = NotDeserialised
    /\ t2' = get_deserialised(t1)
    /\ UNCHANGED <<t1, mbuf, t1_res, t1b, t2b, netVars, regVars, last, panic>>

\* Box::new(t1c.clone())
BoxNew ==
    /\ panic = "none"
    /\ t1b = NotBoxed
    /\ t1b' = Box(t1)
    /\ UNCHANGED <<t1, mbuf, t1_res, t2, t2b, netVars, regVars, last, panic>>

\* Deserialisable::<Test1>::get_deserialised(t1b): the Box is moved into
\* the call.
GetDeserialisedBox ==
    /\ panic = "none"
    /\ t1b.tag = "Box"
    /\ t2b' = get_deserialised_box(t1b)
    /\ t1b' = Moved
    /\ UNCHANGED <<t1, mbuf, t1_res, t2, netVars, regVars, last, panic>>

InitTriv == \E i \in TrivValues : InitAt(Floor, i)

NextTriv == GetDeserialised \/ BoxNew \/ GetDeserialisedBox

SpecTriv == InitTriv /\ [][NextTriv]_vars

(***************************************************************************)
(* The dispatcher with every kind of envelope and control event, for one   *)
(* peer and one registered actor: one path is registered, the other path   *)
(* stays absent; routed messages carry an explicit Path or a source that   *)
(* is resolved through system_path.                                        *)
(***************************************************************************)
CtlPeers == {"a1"}
CtlActors == {"r1"}
CtlPaths == {"p1"}
CtlSrcKinds == {"Path", "Alias"}

NextCtl ==
    \/ \E ok \in BOOLEAN : Start(ok)
    \/ Stop
    \/ Kill
    \/ \E a \in CtlPeers, src \in CtlSrcKinds, serOk \in BOOLEAN,
          connOk \in BOOLEAN :
         \E budget \in MsgBudgets(a) :
            NumMsgs < MaxMsgs /\ MsgTcp(a, src, serOk, connOk, budget)
    \/ \E src \in SrcKinds : MsgUdp(src)
    \/ \E src \in CtlSrcKinds, dst \in Paths, msg \in MsgForms :
         \E srcPath \in LocalSources(dst, msg) :
            MsgLocal(src, srcPath, dst, msg)
    \/ \E a \in CtlPeers :
         \E state \in {Closed, Error, Connected(NextSender(a))} :
            ConnEvent(a, state)
    \/ DataEvent
    \/ Cast
    \/ \E actor \in CtlActors, path \in CtlPaths :
         Register(actor, path, "none")

SpecCtl == Init /\ [][NextCtl]_vars

(***************************************************************************)
(* One peer followed through several connections: more Msg envelopes, with *)
(* explicit sources, and the senders of its Connected events.              *)
(***************************************************************************)
NextPeer ==
    \/ \E ok \in BOOLEAN : Start(ok)
    \/ \E a \in CtlPeers, serOk \in BOOLEAN, connOk \in BOOLEAN :
         \E budget \in MsgBudgets(a) :
            NumMsgs < MaxPeerMsgs /\ MsgTcp(a, "Path", serOk, connOk, budget)
    \/ \E a \in CtlPeers :
         \E state \in {Closed, Error, Connected(NextSender(a))} :
            ConnEvent(a, state)
    \/ \E a \in CtlPeers : DropReceiver(a)

SpecPeer == Init /\ [][NextPeer]_vars

(***************************************************************************)
(* The dispatcher with a bridge that answers: every connection request for *)
(* one peer is answered with a Connected event whose sender accepts every  *)
(* frame, every request for the other peer with a Closed event.  No sender *)
(* ever refuses a frame.  An answer the bridge owes is an event in the     *)
(* dispatcher's mailbox, which is handled eventually.                      *)
(***************************************************************************)
LivePeer == "a1"
ClosedPeer == "a2"

\* The Connected event that answers a request: its sender accepts every
\* frame the drain offers.
ConnAnswer(a) ==
    /\ panic = "none"
    /\ net_bridge = "Some"
    /\ connections[a] = Initializing
    /\ on_conn_state(a, Connected(NextSender(a)), Len(QueueOf(a)))

\* The Closed event that answers a request.
ClosedAnswer(a) ==
    /\ connections[a] = Initializing
    /\ ConnEvent(a, Closed)

NextLive ==
    \/ \E ok \in BOOLEAN : Start(ok)
    \/ \E a \in Peers, src \in CtlSrcKinds, serOk \in BOOLEAN,
          connOk \in BOOLEAN :
         /\ NumMsgs < MaxMsgs
         /\ MsgTcp(a, src, serOk, connOk, Len(QueueOf(a)) + 1)
    \/ ConnAnswer(LivePeer)
    \/ ClosedAnswer(ClosedPeer)

SpecLive == Init /\ [][NextLive]_vars /\ WF_vars(ConnAnswer(LivePeer))

(***************************************************************************)
(* The claims about frames, queues and senders (SpecNet).                  *)
(***************************************************************************)
\* The frames the senders of a peer accepted, in the order of acceptance.
AcceptedFrames(a) == [i \in 1..Len(accepted[a]) |-> accepted[a][i][1]]

Range(q) == {q[i] : i \in 1..Len(q)}

Count(q, x) == Cardinality({i \in 1..Len(q) : q[i] = x})

\* C1: the frames accepted by the senders of a peer are a prefix of the
\* frames route_remote produced for it; in particular they are accepted in
\* the order they were produced (frames are numbered in that order) and
\* none is accepted twice.  This states the order part, which every prefix
\* has.
C1_AcceptedInProducedOrder ==
    \A a \in Peers :
        \A i, j \in 1..Len(accepted[a]) :
            i < j => AcceptedFrames(a)[i] < AcceptedFrames(a)[j]

\* C2: at every moment a frame that was enqueued for a peer is either in
\* the peer's queue or was accepted by exactly one sender: never both, never
\* neither.
C2_QueuedXorAcceptedOnce ==
    \A a \in Peers :
        \A f \in enqueued[a] :
            Count(QueueOf(a), f) + Count(AcceptedFrames(a), f) = 1

\* C3: when a send failed while an envelope was handled (in route_remote's
\* direct send, in try_drain or in the drain of a Connected event), the
\* failed frame and the frames behind it are the peer's queue, in order, and
\* the peer's recorded state is Closed.
C3_FailedSendRequeuesAndCloses ==
    last.failed =>
        /\ connections[last.addr] = Closed
        /\ QueueOf(last.addr) = last.rest

\* C9: a frame leaves a peer's queue only by being accepted by a sender:
\* every frame that was enqueued and not accepted is in the queue.
C9_QueuedUntilAccepted ==
    \A a \in Peers :
        \A f \in enqueued[a] :
            f \notin Range(AcceptedFrames(a)) => f \in Range(QueueOf(a))

\* C10: no Msg envelope makes the dispatcher panic but a LOCAL message with
\* a typed local form whose source is not registered; in particular not a
\* serialisation failure and not a failing bridge.connect.  (A failed Start
\* is no Msg envelope, and a source resolved through system_path before
\* Start is left aside here.)
C10_MsgNeverPanics ==
    panic \in {"none", "start", "nonlocal_src", "system_path"}

\* C12: the connection table holds one state per peer; a Connected state
\* holds the sender of the latest Connected event for the peer, every
\* earlier sender of the peer is dropped, and once a Connection event has
\* been handled the state recorded for its peer is the reported one.
C12_RecordedIsReported ==
    /\ \A a \in Peers :
         /\ connections[a].tag \in {"Absent", "New", "Initializing",
                                    "Closed", "Error", "Connected"}
         /\ connections[a].tag = "Connected" =>
               /\ connections[a].tx = Len(senders[a])
               /\ connections[a].tx >= 1
         /\ \A i \in 1..Len(senders[a]) :
               senders[a][i] => connections[a] = Connected(i)
    /\ last.kind = "Conn" => connections[last.addr] = last.reported

\* A second Connected event for a peer was handled while the first sender
\* was recorded and held: the table holds the second sender, the first is
\* dropped.
C12_Witness ==
    /\ last.kind = "Conn"
    /\ last.reported = Connected(2)
    /\ connections[last.addr] = Connected(2)
    /\ senders[last.addr] = <<FALSE, TRUE>>

\* C13: a Connection event that reports Error (or Closed) leaves the
\* peer's queue as it is, and a frame route_remote produces while a bridge
\* is installed and the peer is, and stays, in Error or Closed (or is being
\* connected) is in the peer's queue once the envelope has been handled.
C13_FramesKeptWhileUnconnected ==
    /\ [][(last'.kind = "Conn" /\ last'.reported.tag \in {"Error", "Closed"})
            => queue_manager' = queue_manager]_vars
    /\ []((/\ last.kind = "Msg"
           /\ panic = "none"
           /\ net_bridge = "Some"
           /\ connections[last.addr].tag \in
                 {"Error", "Closed", "Initializing"})
          => Len(produced[last.addr]) \in Range(QueueOf(last.addr)))

\* A step that handles a Start event (the only other step that leaves `last`
\* alone, DropReceiver, changes senders).
StartStep == last'.kind = "Start" /\ senders' = senders /\ panic = "none"

\* C11 as stated: handling Start either installs the bridge and the queue
\* manager and fulfils the readiness promise, or fails fatally, and then
\* the readiness promise is never fulfilled; it is fulfilled at most once.
C11_FailedStartNeverReady ==
    /\ ready <= 1
    /\ panic = "start" => ready = 0
    /\ (last.kind = "Start" /\ panic = "none")
         => net_bridge = "Some" /\ queue_manager.some /\ ready = 1

\* C11 as amended: a Start that succeeds installs the bridge and the queue
\* manager, and the readiness promise has then been fulfilled; a Start that
\* fails is fatal, installs nothing and does not fulfil the promise (which
\* stays fulfilled when an earlier Start succeeded); over any sequence of
\* control events the promise is fulfilled at most once.
C11_StartInstallsOrFails ==
    /\ [](ready <= 1)
    /\ [][StartStep =>
           \/ /\ panic' = "none"
              /\ net_bridge' = "Some"
              /\ queue_manager'.some
              /\ notify_ready' = "None"
              /\ ready' = 1
           \/ /\ panic' = "start"
              /\ ready' = ready
              /\ notify_ready' = notify_ready
              /\ net_bridge' = net_bridge
              /\ queue_manager' = queue_manager]_vars

\* A Start failed after an earlier Start had fulfilled the promise.
C11_Witness == panic = "start" /\ ready = 1 /\ net_bridge = "Some"

(***************************************************************************)
(* The claims about route_remote and on_conn_state (SpecNet).              *)
(***************************************************************************)
\* A step in which route_remote has built a frame for peer a.
MsgStep(a) ==
    /\ last'.kind = "Msg"
    /\ last'.addr = a
    /\ produced'[a] # produced[a]

\* The frames the senders of peer a accept in this step, in order.
NewlyAccepted(a) ==
    [i \in 1..(Len(accepted'[a]) - Len(accepted[a])) |->
        accepted'[a][Len(accepted[a]) + i][1]]

\* C21: for a Connected peer route_remote sends the new frame directly
\* only when the peer's queue is empty; when the queue is not empty the
\* frame goes behind the queued frames and the queue is drained from its
\* head: what is sent, followed by what stays queued, is the old queue
\* followed by the new frame, and every send goes to the recorded sender.
C21_DirectSendOnlyWhenQueueEmpty ==
    /\ [](\A a \in Peers, budget \in 0..(MaxMsgs + 1) :
            LET q == QueueOf(a)
                frame == NextFrame(a)
                r == route_connected(q, frame, budget)
            IN
            /\ r.sent \o r.q = Append(q, frame)
            /\ (q # <<>> /\ r.sent # <<>>) => r.sent[1] = Head(q)
            /\ (q # <<>> /\ frame \in Range(r.sent)) => r.q = <<>>
            /\ r.failed <=> r.q # <<>>)
    /\ [][\A a \in Peers :
            (/\ MsgStep(a)
             /\ connections[a].tag = "Connected"
             /\ queue_manager.some)
            => /\ NewlyAccepted(a) \o QueueOf(a)' =
                     Append(QueueOf(a), NextFrame(a))
               /\ \A i \in (Len(accepted[a]) + 1)..Len(accepted'[a]) :
                     accepted'[a][i][2] = connections[a].tx
               /\ (QueueOf(a) # <<>> /\ NewlyAccepted(a) # <<>>)
                     => NewlyAccepted(a)[1] = Head(QueueOf(a))]_vars

\* A Msg envelope was handled for a Connected peer whose queue was not
\* empty: the new frame is queued behind the frame that was queued.
C21_Witness ==
    /\ last.kind = "Msg"
    /\ last.failed
    /\ QueueOf(last.addr) = <<1, 2>>
    /\ connections[last.addr] = Closed

\* A step in which a Connected event for peer a is handled.
ConnectedStep(a) ==
    /\ last'.kind = "Conn"
    /\ last'.addr = a
    /\ Len(senders'[a]) = Len(senders[a]) + 1

\* Whether the frames of q are in the order route_remote enqueued them
\* (frames are numbered in that order).
InEnqueueOrder(q) == \A i, j \in 1..Len(q) : i < j => q[i] < q[j]

\* C22: after any envelope a peer recorded as Connected whose sender has
\* accepted every frame offered to it has an empty queue (a queue that is
\* not empty under a Connected state is left by a Connected event whose
\* sender refused a frame, and stays only until the next envelope for the
\* peer); and a Connected event for a peer that is Initializing whose
\* sender accepts every frame hands all queued frames to that sender
\* within the event, in the order they were enqueued.
C22_ConnectedDrainsInOrder ==
    /\ [](\A a \in Peers :
            (connections[a].tag = "Connected" /\ Open(a))
               => QueueOf(a) = <<>>)
    /\ [][\A a \in Peers :
            (connections'[a].tag = "Connected" /\ QueueOf(a)' # <<>>)
            => \/ ConnectedStep(a) /\ last'.failed
               \/ /\ connections'[a] = connections[a]
                  /\ QueueOf(a)' = QueueOf(a)
                  /\ ~MsgStep(a)]_vars
    /\ [][\A a \in Peers :
            (/\ ConnectedStep(a)
             /\ connections[a] = Initializing
             /\ ~last'.failed)
            => /\ QueueOf(a)' = <<>>
               /\ Range(NewlyAccepted(a)) = Range(QueueOf(a))
               /\ Len(NewlyAccepted(a)) = Len(QueueOf(a))
               /\ InEnqueueOrder(NewlyAccepted(a))
               /\ \A i \in (Len(accepted[a]) + 1)..Len(accepted'[a]) :
                     accepted'[a][i][2] = connections'[a].tx]_vars

\* C23: a frame route_remote handles for a peer in state New (an entry
\* just inserted for a peer never referenced before included) or Closed is
\* appended to the peer's queue, a connection is requested from the bridge
\* and the state becomes Initializing; without a bridge the frame is
\* queued nowhere and the state becomes Closed.  Nothing is sent.
C23_NewOrClosedQueuesAndConnects ==
    [][\A a \in Peers :
         (MsgStep(a) /\ connections[a].tag \in {"Absent", "New", "Closed"})
         => /\ IF net_bridge = "Some"
               THEN /\ QueueOf(a)' = Append(QueueOf(a), NextFrame(a))
                    /\ last'.connect
                    /\ connections'[a] = Initializing
               ELSE /\ queue_manager' = queue_manager
                    /\ ~last'.connect
                    /\ connections'[a] = Closed
            /\ accepted' = accepted]_vars

C25_ConnectOnlyFromNewOrClosed ==
    /\ [](last.connect => last.kind = "Msg")
    /\ [][panic = "none"]_vars
    /\ [][\A a \in Peers :
            MsgStep(a) =>
               /\ last'.connect =>
                     /\ connections[a].tag \in {"Absent", "New", "Closed"}
                     /\ connections'[a] = Initializing \/ panic' = "connect"
               /\ connections[a] = Initializing =>
                     /\ ~last'.connect
                     /\ QueueOf(a)' = Append(QueueOf(a), NextFrame(a))
                     /\ connections' = connections
                     /\ accepted' = accepted
               /\ connections[a].tag = "Connected" => ~last'.connect]_vars
    /\ [][\A a \in Peers :
            connections[a] = Initializing =>
               \/ connections'[a] = Initializing
               \/ /\ last'.kind = "Conn"
                  /\ last'.addr = a
                  /\ connections'[a] = last'.reported]_vars

\* A second Msg envelope was handled for a peer that is being connected:
\* both frames are queued and no second request was issued.
C25_Witness ==
    /\ last.kind = "Msg"
    /\ ~last.connect
    /\ connections[last.addr] = Initializing
    /\ QueueOf(last.addr) = <<1, 2>>

\* C28: when the bridge answers every connection request for a peer with
\* a Connected event whose sender accepts every frame, every frame
\* route_remote produces for the peer while a bridge is installed is
\* eventually accepted by a sender (as long as the dispatcher has not
\* failed fatally); and the frames queued for a peer when
\* a Closed event arrives stay queued, and none is sent, until another Msg
\* envelope for the peer is handled.
C28_FramesEventuallyAccepted ==
    /\ \A f \in 1..MaxMsgs :
          (/\ last.kind = "Msg"
           /\ last.addr = LivePeer
           /\ panic = "none"
           /\ net_bridge = "Some"
           /\ Len(produced[LivePeer]) = f)
          ~> (f \in Range(AcceptedFrames(LivePeer)) \/ panic # "none")
    /\ [][(/\ connections[ClosedPeer] = Closed
           /\ QueueOf(ClosedPeer) # <<>>
           /\ ~MsgStep(ClosedPeer))
          => /\ QueueOf(ClosedPeer)' = QueueOf(ClosedPeer)
             /\ accepted'[ClosedPeer] = accepted[ClosedPeer]]_vars

\* The places of the accepted log of peer a that this step adds.
NewSends(a) == (Len(accepted[a]) + 1)..Len(accepted'[a])

\* C29: every frame is sent on the sender of the latest Connected event
\* for its peer: a Connected event drains into the sender it carries, a Msg
\* envelope sends on the sender the table holds; once an entry is replaced
\* no frame goes to a sender of an earlier Connected event (the senders of
\* the accepted frames never go back); and nothing is sent for a peer whose
\* recorded state is not Connected, but by the Connected event that makes
\* it so.
C29_OnlyLatestSender ==
    /\ [](\A a \in Peers :
            \A i, j \in 1..Len(accepted[a]) :
               i < j => accepted[a][i][2] <= accepted[a][j][2])
    /\ [][\A a \in Peers :
            /\ \A i \in NewSends(a) :
                  /\ accepted'[a][i][2] = Len(senders'[a])
                  /\ accepted'[a][i][2] =
                        IF ConnectedStep(a) THEN connections'[a].tx
                                            ELSE connections[a].tx
            /\ (connections[a].tag # "Connected" /\ ~ConnectedStep(a))
                  => accepted'[a] = accepted[a]
            /\ (connections[a].tag = "Connected" /\ ~ConnectedStep(a)
                   /\ ~MsgStep(a))
                  => accepted'[a] = accepted[a]]_vars

\* A frame was sent on the second sender of a peer after an earlier frame
\* had been accepted by the first, which the second Connected event
\* replaced.
C29_Witness ==
    /\ last.kind = "Msg"
    /\ accepted[last.addr] = <<<<1, 1>>, <<2, 2>>>>
    /\ senders[last.addr] = <<FALSE, TRUE>>
    /\ connections[last.addr] = Connected(2)

\* A step that handles a Msg envelope or a Connection event for peer a
\* (the transport dropping a receiver leaves all of these alone).
HandledFor(a) ==
    /\ last'.kind \in {"Msg", "Conn"}
    /\ last'.addr = a
    /\ \/ last' # last
       \/ connections' # connections
       \/ produced' # produced
       \/ panic' # panic

\* C30: handling a Msg envelope or a Connection event for a peer leaves
\* the recorded state and the queue of every other peer as they are, and
\* sends nothing on, and does not drop, any other peer's sender.
C30_PeersAreIsolated ==
    [][\A a \in Peers, b \in Peers :
         (a # b /\ HandledFor(a))
         => /\ connections'[b] = connections[b]
            /\ QueueOf(b)' = QueueOf(b)
            /\ accepted'[b] = accepted[b]
            /\ senders'[b] = senders[b]]_vars

\* A Msg envelope for one peer was queued while the other peer had a frame
\* queued under a Connected state.
C30_Witness ==
    /\ last.kind = "Msg"
    /\ last.addr = "a1"
    /\ QueueOf("a1") = <<1>>
    /\ connections["a1"] = Initializing
    /\ QueueOf("a2") = <<1>>
    /\ connections["a2"] = Connected(1)

C17_RejectedInputsChangeNothing ==
    [][last'.kind \in {"Udp", "Data", "Cast"}
        => /\ UNCHANGED <<connections, queue_manager, senders, accepted,
                          produced, enqueued, net_bridge>>
           /\ UNCHANGED <<store, cell, registered, reaper>>
           /\ ~last'.connect]_vars

\* A UDP message was handled while a frame was queued for a peer that is
\* being connected and a path was registered.
C17_Witness ==
    /\ last.kind = "Udp"
    /\ panic = "none"
    /\ \E a \in Peers :
          QueueOf(a) # <<>> /\ connections[a] = Initializing
    /\ \E p \in Paths : contains(Current, p)

\* C18 as stated: resolving the source of a Msg envelope never fails,
\* whichever of the four variants it is.
C18_SourceAlwaysResolves == panic # "system_path"

\* C18 as amended: an explicit Path always resolves; an Alias, an ActorId
\* and System resolve once a Start has succeeded, and from then on for
\* good; resolution has only ever failed while no Start had succeeded.
C18_SourceResolvesAfterStart ==
    /\ \A src \in SrcKinds :
         (src = "Path" \/ ready > 0) => ~system_path_panics(src)
    /\ panic = "system_path" => ready = 0 /\ net_bridge = "None"

\* After a successful Start a Msg envelope was routed to a peer and a
\* connection was requested for it.
C18_Witness ==
    /\ last.kind = "Msg"
    /\ last.connect
    /\ panic = "none"
    /\ ready = 1
    /\ net_bridge = "Some"

\* C19: once a Stop or a Kill has been handled the bridge is shut down (no
\* running bridge is installed), and handling it sends no frame and leaves
\* every peer queue as it is.
C19_StopShutsBridgeDown ==
    /\ [](last.kind \in {"Stop", "Kill"} => net_bridge # "Some")
    /\ [][last'.kind \in {"Stop", "Kill"}
           => UNCHANGED <<queue_manager, accepted>>]_vars

(***************************************************************************)
(* The claim about serialisation.                                          *)
(***************************************************************************)
\* C20: deserialising the bytes T1Ser wrote for a value yields Ok of that
\* value, although the serialiser wrote bytes the deserialiser does not
\* consume; serialising never runs out of the reserved capacity.
C20_RoundTripIsIdentity ==
    /\ panic = "none"
    /\ Len(mbuf) <= SizeHint
    /\ t1_res # NotDeserialised =>
          /\ t1_res = [tag |-> "Ok", i |-> t1]
          /\ Len(mbuf) > U64Bytes

\* A value of more than one byte went through the round trip, with eighty
\* bytes left unconsumed.
C20_Witness ==
    /\ t1_res = [tag |-> "Ok", i |-> 16909060]
    /\ t1 = 16909060
    /\ Len(mbuf) = U64Bytes + 80

\* C31: the trivial Deserialisable implementations are the identity: for
\* every value v, get_deserialised of v and get_deserialised of a Box that
\* holds v both return Ok(v); so do the calls made on the value and on the
\* Box of its clone.
C31_TrivialIsIdentity ==
    /\ \A v \in TrivValues :
          /\ get_deserialised(v) = [tag |-> "Ok", i |-> v]
          /\ get_deserialised_box(Box(v)) = [tag |-> "Ok", i |-> v]
    /\ t2 # NotDeserialised => t2 = [tag |-> "Ok", i |-> t1]
    /\ t2b # NotDeserialised => t2b = [tag |-> "Ok", i |-> t1]
    /\ t1b.tag = "Box" => t1b.boxed = t1
    /\ panic = "none"

\* Both calls of the repository's test were made on its value.
C31_Witness ==
    /\ t1 = TestValue
    /\ t2 = [tag |-> "Ok", i |-> TestValue]
    /\ t2b = [tag |-> "Ok", i |-> TestValue]
    /\ t1b = Moved

(***************************************************************************)
(* The claims about the reaper.                                            *)
(***************************************************************************)
\* C14: the reaper is scheduled exactly from the first successful
\* registration on (the first snapshot published), exactly one wake-up is
\* pending from then on and none before, a registration arms a timer only
\* when it is the first to succeed, and the reaper runs only when
\* scheduled.
C14_OneWakeupPending ==
    /\ [](/\ reaper.scheduled <=> cell > 1
          /\ reaper.pending = IF reaper.scheduled THEN 1 ELSE 0
          /\ last.kind = "Reap" => reaper.scheduled /\ cell > 2)
    /\ [][reaper'.pending # reaper.pending
           => /\ last'.kind = "Register"
              /\ last'.res = "Ok"
              /\ ~reaper.scheduled]_vars

\* The reaper has run, and a registration succeeded after the run.
C14_Witness ==
    /\ last.kind = "Register"
    /\ last.res = "Ok"
    /\ cell > 3
    /\ reaper.pending = 1

\* A step in which the reaper runs.
ReapStep == last'.kind = "Reap" /\ cell' # cell

\* C15: a run that reaps nothing never shortens the interval and keeps it
\* at most at the ceiling, a run that reaps something never lengthens it
\* and keeps it at least at the floor, nothing else changes it, and it is
\* always within [Floor, Ceiling].
C15_IntervalWithinBounds ==
    /\ [](Floor <= reaper.interval /\ reaper.interval <= Ceiling)
    /\ [][IF ReapStep
          THEN IF reaped(Current) = {}
               THEN /\ reaper'.interval >= reaper.interval
                    /\ reaper'.interval <= Ceiling
               ELSE /\ reaper'.interval <= reaper.interval
                    /\ reaper'.interval >= Floor
          ELSE reaper'.interval = reaper.interval]_vars

\* The reaper ran at least twice, a run that reaped an entry among them,
\* and the last run left the interval at the ceiling.
C15_Witness ==
    /\ last.kind = "Reap"
    /\ cell > 3
    /\ reaper.interval = Ceiling
    /\ \E p \in Paths : registered[p] = NotRegistered /\ ~contains(Current, p)
    /\ \E r \in Actors : ~alive[r]

\* A step that handles a Register envelope.
RegisterStep == last'.kind = "Register" /\ (last' # last \/ cell' # cell)

\* C26: a reaper run publishes a snapshot from which exactly the entries
\* whose reference reports dead are removed; every live entry stays mapped
\* to the same reference and no entry is added; the number the run returns
\* (the one the interval is tuned with) is the number of entries removed; a
\* run that finds no dead reference returns zero and leaves the contents
\* of the registry as they are.
C26_ReaperRemovesExactlyDead ==
    [][ReapStep =>
         LET dead == {e \in Current : ~alive[e[2]]}
             removed == Cardinality(Current) - Cardinality(Current')
         IN
         /\ Current' = Current \ dead
         /\ \A e \in Current : alive[e[2]] => e \in Current'
         /\ \A e \in Current : ~alive[e[2]] => ~contains(Current', e[1])
         /\ Current' \subseteq Current
         /\ removed = Cardinality(dead)
         /\ reaper'.interval = tune(reaper.interval, removed)
         /\ dead = {} => removed = 0 /\ Current' = Current]_vars

\* A run removed the entry of a dead actor and kept the entry of a live
\* one: two registrations, then a run that shortened the interval.
C26_Witness ==
    /\ last.kind = "Reap"
    /\ cell = 4
    /\ Cardinality(Current) = 1
    /\ \A e \in Current : alive[e[2]]
    /\ reaper.interval = 3200

\* C27: a Register envelope for a path whose registered actor has
\* terminated and is not reaped yet is rejected with DuplicateEntry and
\* changes nothing; a reaper run removes the dead entry, and from then on
\* a Register envelope for the path succeeds and maps the path to the
\* actor of the envelope.
C27_DeadUnreapedIsDuplicate ==
    /\ [][RegisterStep =>
            LET path == last'.addr IN
            /\ (\E e \in Current : e[1] = path /\ ~alive[e[2]]) =>
                  /\ last'.res = "DuplicateEntry"
                  /\ Current' = Current
                  /\ cell' = cell
            /\ (\A e \in Current : e[1] # path) =>
                  /\ last'.res = "Ok"
                  /\ <<path, last'.actor>> \in Current']_vars
    /\ [][ReapStep =>
            \A e \in Current :
               ~alive[e[2]] =>
                  /\ \A f \in Current' : f[1] # e[1]
                  /\ register_result(Current', e[1]) = "Ok"]_vars

\* A Register envelope was rejected for a path whose actor has terminated
\* and is still in the registry.
C27_Witness ==
    /\ last.kind = "Register"
    /\ last.res = "DuplicateEntry"
    /\ \E e \in Current : e[1] = last.addr /\ ~alive[e[2]]

(***************************************************************************)
(* The claims about the registry (SpecReg).                                *)
(***************************************************************************)
\* C4: a Register envelope for a path the current snapshot contains is
\* rejected with DuplicateEntry and publishes nothing (the cell and every
\* snapshot are unchanged); one for an absent path yields Ok and publishes a
\* snapshot that contains the path.
C4_RegisterResult ==
    [][RegisterStep =>
         /\ contains(Current, last'.addr) =>
              /\ last'.res = "DuplicateEntry"
              /\ cell' = cell
              /\ store' = store
         /\ ~contains(Current, last'.addr) =>
              /\ last'.res = "Ok"
              /\ cell' # cell
              /\ get_by_actor_path(Current', last'.addr) = last'.actor]_vars

\* A second registration of a registered path was rejected.
C4_Witness ==
    /\ last.kind = "Register"
    /\ last.res = "DuplicateEntry"
    /\ registered[last.addr].ref # ""
    /\ contains(Current, last.addr)

\* C5: in every snapshot a path maps to at most one reference, and no step
\* (registration or reaper run) replaces the reference of a path that is
\* registered.
UniquePaths(snapshot) ==
    \A e1, e2 \in snapshot : e1[1] = e2[1] => e1 = e2

C5_OneReferencePerPath ==
    /\ [](\A i \in DOMAIN store : UniquePaths(store[i]))
    /\ [][\A p \in Paths :
            contains(Current, p) /\ contains(Current', p) =>
               get_by_actor_path(Current', p) = get_by_actor_path(Current, p)]_vars

\* A registration of a registered path with another actor was handled, and
\* the path still maps to the actor registered first.
C5_Witness ==
    /\ last.kind = "Register"
    /\ last.res = "DuplicateEntry"
    /\ get_by_actor_path(Current, last.addr) # last.actor
    /\ get_by_actor_path(Current, last.addr) = registered[last.addr].ref

\* What a lookup of every registered path returns, now and on each lease
\* taken since the registration.
LookupFindsRegistered ==
    \A p \in Paths :
        registered[p].ref # "" =>
            /\ get_by_actor_path(Current, p) = registered[p].ref
            /\ \A t \in Readers :
                 lease[t] >= registered[p].at =>
                    get_by_actor_path(store[lease[t]], p) = registered[p].ref

C7_LeaseIsStable ==
    \A t \in Readers : lease[t] # 0 => store[lease[t]] = leaseSeen[t]

\* A lease is held across a publication that changed the registry.
C7_Witness ==
    \E t \in Readers :
        /\ lease[t] # 0
        /\ lease[t] < cell
        /\ store[lease[t]] # Current

\* C8: a Register envelope with a promise fulfils it exactly once, with the
\* registration's result; a receiver that was dropped neither stops the
\* dispatcher nor undoes the registration (the entry of a registration that
\* succeeded is in the current snapshot).
C8_PromiseFulfilledOnce ==
    last.kind = "Register" =>
        /\ last.fulfils = IF last.promise = "none" THEN <<>> ELSE <<last.res>>
        /\ panic = "none"
        /\ last.res \in {"Ok", "DuplicateEntry"}
        /\ last.res = "Ok" =>
              /\ registered[last.addr] = [ref |-> last.actor, at |-> cell]
              /\ get_by_actor_path(Current, last.addr) = last.actor

\* A registration succeeded whose promise had lost its receiver.
C8_Witness ==
    /\ last.kind = "Register"
    /\ last.promise = "dropped"
    /\ last.res = "Ok"
    /\ last.fulfils = <<"Ok">>
    /\ contains(Current, last.addr)

====
